---------------------------- MODULE Spec2Model ----------------------------
(***************************************************************************)
(* A model of src/main.rs: a serial HTTP/1.1 static-file server.           *)
(*                                                                         *)
(* Text the code parses (request lines, header lines, resources, paths,    *)
(* URLs) is a sequence of tokens whose concatenation is the text.  The     *)
(* characters the code splits on (' ', '/', ':') and the line terminator   *)
(* are always tokens of their own, so every split, trim and prefix test of *)
(* the code is the same operation on the token sequence.  Text the code    *)
(* only copies (bodies, content types, reason phrases) is a TLA+ string.   *)
(* An Option is a sequence of length 0 (None) or 1 (Some).                 *)
(***************************************************************************)
EXTENDS Integers, Sequences, FiniteSets, TLC

None == <<>>
Some(x) == <<x>>

---------------------------------------------------------------------------
(* str operations of the standard library, on token sequences *)

Whitespace == {" ", "\r\n"}

RECURSIVE trim_start(_)
trim_start(s) ==
    IF s # <<>> /\ Head(s) \in Whitespace THEN trim_start(Tail(s)) ELSE s

RECURSIVE trim_end(_)
trim_end(s) ==
    IF s # <<>> /\ s[Len(s)] \in Whitespace
    THEN trim_end(SubSeq(s, 1, Len(s) - 1))
    ELSE s

trim(s) == trim_end(trim_start(s))

RECURSIVE trim_start_matches(_, _)
trim_start_matches(s, c) ==
    IF s # <<>> /\ Head(s) = c THEN trim_start_matches(Tail(s), c) ELSE s

str_starts_with(s, prefix) ==
    /\ Len(s) >= Len(prefix)
    /\ SubSeq(s, 1, Len(prefix)) = prefix

str_ends_with(s, c) == s # <<>> /\ s[Len(s)] = c

strip_prefix(s, prefix) ==
    IF str_starts_with(s, prefix)
    THEN Some(SubSeq(s, Len(prefix) + 1, Len(s)))
    ELSE None

(* the tokens of s before the first c (all of s when there is none) *)
RECURSIVE before_first(_, _)
before_first(s, c) ==
    IF s = <<>> \/ Head(s) = c THEN <<>>
    ELSE <<Head(s)>> \o before_first(Tail(s), c)

(* str::split(c): the pieces between the occurrences of c; never empty *)
RECURSIVE split(_, _)
split(s, c) ==
    LET first == before_first(s, c)
    IN  IF Len(first) = Len(s) THEN <<s>>
        ELSE <<first>> \o split(SubSeq(s, Len(first) + 2, Len(s)), c)

(* x.split_once(':').map_or(x, |(name, _port)| name) *)
split_once_name(x, c) == before_first(x, c)

to_ascii_lowercase(t) ==
    CASE t \in {"Connection", "CONNECTION"} -> "connection"
      [] t \in {"Close", "CLOSE"} -> "close"
      [] t \in {"Host", "HOST"} -> "host"
      [] t = "GET" -> "get"
      [] t = "POST" -> "post"
      [] t = "HTTP" -> "http"
      [] t = "Accept" -> "accept"
      [] OTHER -> t

(* a comparison that minds the letter case *)
eq_case_sensitive(a, b) == a = b

eq_ignore_ascii_case(a, b) ==
    /\ Len(a) = Len(b)
    /\ \A i \in 1..Len(a) : to_ascii_lowercase(a[i]) = to_ascii_lowercase(b[i])

(* the text a token sequence stands for *)
RECURSIVE Text(_)
Text(s) == IF s = <<>> THEN "" ELSE Head(s) \o Text(Tail(s))

---------------------------------------------------------------------------
(* The file system the server runs on.  A location is the sequence of names *)
(* from the root directory; there are no symbolic links in this tree.       *)

Dirs ==
    { <<>>,
      <<"etc">>,
      <<"srv">>,
      <<"srv", "www">>,
      <<"srv", "www", "example.com">>,
      <<"srv", "www", "example.com", "docs">>,
      <<"srv", "www", "other.org">> }

FileContent ==
    ( <<"etc", "passwd">>                                :> "root:x:0:0" ) @@
    ( <<"srv", "secret.txt">>                            :> "s3cret" ) @@
    ( <<"srv", "www", "top.txt">>                        :> "top" ) @@
    ( <<"srv", "www", "example.com", "index.html">>      :> "<h1>Hi</h1>" ) @@
    ( <<"srv", "www", "example.com", "docs", "file.xyz">> :> "xyz" ) @@
    ( <<"srv", "www", "example.com", "logo.PNG">>        :> "PNG" ) @@
    ( <<"srv", "www", "other.org", "index.html">>        :> "<h1>Other</h1>" )

Files == DOMAIN FileContent

(* the document root given on the command line (args.directory) *)
resource_dir == <<"/", "srv", "/", "www">>

(* the port given on the command line (args.port, saddr.port()) *)
ListenPort == 8080

(* Pathname resolution by the operating system: the location reached from *)
(* cur by the pieces between the '/' of a path, or None (ENOENT, ENOTDIR). *)
RECURSIVE Walk(_, _)
Walk(cur, pieces) ==
    IF pieces = <<>> THEN Some(cur)
    ELSE IF cur \notin Dirs THEN None
    ELSE LET c == Text(Head(pieces))
         IN  IF c \in {"", "."} THEN Walk(cur, Tail(pieces))
             ELSE IF c = ".."
             THEN Walk(IF cur = <<>> THEN cur ELSE SubSeq(cur, 1, Len(cur) - 1),
                       Tail(pieces))
             ELSE IF Append(cur, c) \in Dirs \cup Files
             THEN Walk(Append(cur, c), Tail(pieces))
             ELSE None

Resolve(path) == Walk(<<>>, split(path, "/"))

(* Path::canonicalize, Path::is_dir, fs::read / fs::read_to_string *)
canonicalize(path) == Resolve(path)

is_dir(path) == Resolve(path) # None /\ Resolve(path)[1] \in Dirs

fs_read(path) ==
    IF Resolve(path) # None /\ Resolve(path)[1] \in Files
    THEN Some(FileContent[Resolve(path)[1]])
    ELSE None

(* Path::components: "/" is RootDir, "." CurDir, ".." ParentDir, any other *)
(* text a Normal name.  Empty pieces and every "." but a leading one of a   *)
(* rootless path are normalised away.                                       *)
RECURSIVE NormalisedPieces(_, _)
NormalisedPieces(pieces, leading) ==
    IF pieces = <<>> THEN <<>>
    ELSE LET c == Text(Head(pieces))
         IN  (IF c = "" \/ (c = "." /\ ~leading) THEN <<>> ELSE <<c>>)
             \o NormalisedPieces(Tail(pieces), FALSE)

components(path) ==
    IF path # <<>> /\ Head(path) = "/"
    THEN <<"/">> \o NormalisedPieces(split(path, "/"), FALSE)
    ELSE NormalisedPieces(split(path, "/"), TRUE)

(* PathBuf::push of a string *)
push(p, s) ==
    IF s # <<>> /\ Head(s) = "/" THEN s
    ELSE IF p # <<>> /\ p[Len(p)] # "/" THEN p \o <<"/">> \o s
    ELSE p \o s

(* Path::starts_with on canonical locations: whole components *)
starts_with(path, base) ==
    /\ Len(path) >= Len(base)
    /\ SubSeq(path, 1, Len(base)) = base

(* OsStr extension of a file name: the text after its last '.', when the *)
(* name has one that is not its first character.                         *)
extension_of(name) ==
    CASE name = "index.html" -> Some("html")
      [] name \in {"secret.txt", "top.txt", "missing.txt"} -> Some("txt")
      [] name = "file.xyz" -> Some("xyz")
      [] name = "logo.PNG" -> Some("PNG")
      [] name = "example.com" -> Some("com")
      [] name = "other.org" -> Some("org")
      [] OTHER -> None

(* Path::extension: of the last component, when that is a Normal name *)
extension(path) ==
    LET cs == components(path)
    IN  IF cs = <<>> \/ cs[Len(cs)] \in {"/", ".", ".."} THEN None
        ELSE extension_of(cs[Len(cs)])

---------------------------------------------------------------------------
(* Status, and the responses built from it *)

Success == [tag |-> "Success", url |-> <<>>]
MovedPermamently(url) == [tag |-> "MovedPermamently", url |-> url]
BadRequest == [tag |-> "BadRequest", url |-> <<>>]
Forbidden == [tag |-> "Forbidden", url |-> <<>>]
PageNotFound == [tag |-> "PageNotFound", url |-> <<>>]
InternalServerError == [tag |-> "InternalServerError", url |-> <<>>]
NotImplemented == [tag |-> "NotImplemented", url |-> <<>>]

from_status(s) ==
    CASE s.tag = "Success" -> <<200, "OK">>
      [] s.tag = "MovedPermamently" -> <<301, "Moved Permamently">>
      [] s.tag = "BadRequest" -> <<400, "Bad Request">>
      [] s.tag = "Forbidden" -> <<403, "Forbidden">>
      [] s.tag = "PageNotFound" -> <<404, "Not Found">>
      [] s.tag = "InternalServerError" -> <<500, "Internal Server Error">>
      [] s.tag = "NotImplemented" -> <<501, "Not Implemented">>

HTML_MOVED(title, h1, href) ==
    "<!DOCTYPE html>\n<html lang=\"en\">\n<head><meta charset=\"utf-8\"><title>"
    \o title \o "</title></head>\n<body>\n<h1>" \o h1
    \o "</h1>\n<p>The document has moved <a href=\"" \o href
    \o "\">here</a>.</p>\n</body>\n</html>"

HTML_ERROR(title) ==
    "<!DOCTYPE html>\n<html lang=\"en\">\n<head><meta charset=\"utf-8\"><title>"
    \o title \o "</title></head>\n<body>\n<h1>" \o title
    \o "</h1>\n</body>\n</html>"

(* format!("{}", n) of an unsigned number: its decimal digits *)
RECURSIVE to_decimal(_)
to_decimal(n) ==
    IF n < 10 THEN <<n>> ELSE to_decimal(n \div 10) \o <<n % 10>>

(* the length of the body the caller passed, before any synthesis *)
ContentLengthOfInitial(initial_body, final_body) == Len(initial_body)

(* final_body.len() of line 73: the length of the body as it is sent *)
ContentLengthOf(initial_body, final_body) == Len(final_body)

(* The response bytes, kept in their parts: the status line, the header *)
(* lines as <<name, value>> in the order written, and the body after the *)
(* blank line.                                                           *)
build_http_response(status, content_type, initial_body) ==
    LET code == from_status(status)[1]
        status_str == from_status(status)[2]
        final_body ==
            IF status.tag = "MovedPermamently" /\ initial_body = ""
            THEN HTML_MOVED(status_str, status_str, Text(status.url))
            ELSE initial_body
        location ==
            IF status.tag = "MovedPermamently"
            THEN << <<"Location", status.url>> >>
            ELSE <<>>
    IN  [ status_line |-> <<"HTTP/1.1", code, status_str>>,
          headers |-> location
                      \o << <<"Content-Type", content_type>>,
                            <<"Content-Length",
                              to_decimal(ContentLengthOf(initial_body,
                                                         final_body))>> >>,
          body |-> final_body ]

build_error_response(status) ==
    build_http_response(status, "text/html; charset=utf-8",
                        HTML_ERROR(from_status(status)[2]))

(* a failed read answered as a missing page *)
e_to_cow_not_found == build_error_response(PageNotFound)

e_to_cow == build_error_response(InternalServerError)

to_lowercase(ext) == IF ext = "PNG" THEN "png" ELSE ext

content_type_of(ext) ==
    CASE to_lowercase(ext) = "png" -> "image/png"
      [] to_lowercase(ext) \in {"jpg", "jpeg"} -> "image/jpeg"
      [] to_lowercase(ext) = "gif" -> "image/gif"
      [] to_lowercase(ext) = "svg" -> "image/svg+xml"
      [] to_lowercase(ext) = "pdf" -> "application/pdf"
      [] to_lowercase(ext) = "json" -> "application/json"
      [] to_lowercase(ext) = "xml" -> "application/xml"
      [] to_lowercase(ext) = "css" -> "text/css"
      [] to_lowercase(ext) = "js" -> "application/javascript"
      [] to_lowercase(ext) = "txt" -> "text/plain; charset=utf-8"
      [] to_lowercase(ext) = "bin" -> "application/octet-stream"
      [] OTHER -> "application/octet-stream"

build_response_other(ext, p) ==
    IF fs_read(p) # None
    THEN build_http_response(Success, content_type_of(ext), fs_read(p)[1])
    ELSE e_to_cow

---------------------------------------------------------------------------
(* Path confinement and the dispatch of one GET request *)

(* The loop of lines 128-143 over the components left to walk: the       *)
(* accumulator reached, or None where the code returns false.            *)
RECURSIVE walk_components(_, _)
walk_components(actual_target_path, comps) ==
    IF comps = <<>> THEN Some(actual_target_path)
    ELSE LET component == Head(comps)
         IN  CASE component = "/" -> None
               [] component = "." ->
                    walk_components(actual_target_path, Tail(comps))
               [] component = ".." ->
                    IF actual_target_path = <<>> THEN None
                    ELSE walk_components(
                             SubSeq(actual_target_path, 1,
                                    Len(actual_target_path) - 1),
                             Tail(comps))
               [] OTHER ->
                    walk_components(Append(actual_target_path, component),
                                    Tail(comps))

is_path_safe(base_dir, requested_resource) ==
    IF canonicalize(base_dir) = None THEN FALSE
    ELSE LET canonical_base_dir == canonicalize(base_dir)[1]
             walked == walk_components(
                           canonical_base_dir,
                           components(trim_start_matches(requested_resource, "/")))
         IN  walked # None /\ starts_with(walked[1], canonical_base_dir)

(* handle_request: the response, and the file system calls made for it in *)
(* order, each <<call, path>>.                                            *)
handle_request(p0, resource, url) ==
    LET resource_stripped == trim_start_matches(resource, "/")
        p == push(p0, resource_stripped)
        resource_formatted ==
            IF str_ends_with(resource, "/") THEN resource
            ELSE resource \o <<"/">>
        redirect_url == url \o resource_formatted \o <<"index.html">>
        ext == extension(p)
    IN  IF ~is_path_safe(p0, resource_stripped)
        THEN [ cow |-> build_error_response(Forbidden),
               io |-> << <<"canonicalize", p0>> >> ]
        ELSE IF is_dir(p)
        THEN [ cow |-> build_http_response(MovedPermamently(redirect_url),
                                           "text/html; charset=utf-8", ""),
               io |-> << <<"canonicalize", p0>>, <<"is_dir", p>> >> ]
        ELSE IF ext = Some("html")
        THEN [ cow |-> IF fs_read(p) # None
                       THEN build_http_response(Success,
                                "text/html; charset=utf-8", fs_read(p)[1])
                       ELSE e_to_cow,
               io |-> << <<"canonicalize", p0>>, <<"is_dir", p>>,
                         <<"read", p>> >> ]
        ELSE IF ext # None
        THEN [ cow |-> build_response_other(ext[1], p),
               io |-> << <<"canonicalize", p0>>, <<"is_dir", p>>,
                         <<"read", p>> >> ]
        ELSE [ cow |-> build_error_response(PageNotFound),
               io |-> << <<"canonicalize", p0>>, <<"is_dir", p>> >> ]

HostPrefix == <<"Host", ":", " ">>

parse_host_address(host_str) ==
    IF strip_prefix(host_str, HostPrefix) = None THEN None
    ELSE LET x == strip_prefix(host_str, HostPrefix)[1]
             y == IF strip_prefix(x, <<"http", ":", "/", "/">>) # None
                  THEN strip_prefix(x, <<"http", ":", "/", "/">>)[1]
                  ELSE x
         IN  Some(split_once_name(Head(split(y, "/")), ":"))

(* a missing Host header falls back to the empty host name *)
RECURSIVE find_map_host_or_default(_)
find_map_host_or_default(headers) ==
    IF headers = <<>> THEN Some(<<>>)
    ELSE IF parse_host_address(Head(headers)) # None
    THEN parse_host_address(Head(headers))
    ELSE find_map_host_or_default(Tail(headers))

(* actual_headers.iter().find_map(parse_host_address) *)
RECURSIVE find_map_host(_)
find_map_host(headers) ==
    IF headers = <<>> THEN None
    ELSE IF parse_host_address(Head(headers)) # None
    THEN parse_host_address(Head(headers))
    ELSE find_map_host(Tail(headers))

(* every request closes the connection *)
wants_close_always(headers) == TRUE

(* lines 269-275 *)
wants_close(headers) ==
    \E i \in 1..Len(headers) :
        eq_ignore_ascii_case(headers[i], <<"Connection", ":", " ", "close">>)

(* a match that does not look at the version token *)
match_any_version(line) ==
    LET parts == split(trim(line), " ")
    IN  IF Len(parts) = 3 /\ parts[1] = <<"GET">>
        THEN Some(parts[2])
        ELSE None

(* the match of lines 277-282: Some(resource) for ["GET", resource, "HTTP/1.1"] *)
match_request_line(line) ==
    LET parts == split(trim(line), " ")
    IN  IF /\ Len(parts) = 3
           /\ parts[1] = <<"GET">>
           /\ parts[3] = <<"HTTP", "/", "1.1">>
        THEN Some(parts[2])
        ELSE None

(* lines 290-294: the directory a request is confined to.  no_vhost: the *)
(* environment has HOST_NOT_DEFINED = "1".                               *)
base_path(domain_name, no_vhost) ==
    IF no_vhost THEN push(<<>>, resource_dir)
    ELSE push(push(<<>>, resource_dir), domain_name)

(* lines 277-311: the response to a request that was read, and the file *)
(* system calls made for it.                                             *)
respond(line, headers, no_vhost) ==
    IF match_request_line(line) = None
    THEN [cow |-> build_error_response(NotImplemented), io |-> <<>>]
    ELSE IF find_map_host(headers) = None
    THEN [cow |-> build_error_response(BadRequest), io |-> <<>>]
    ELSE LET resource == match_request_line(line)[1]
             domain_name == find_map_host(headers)[1]
             p == base_path(domain_name, no_vhost)
             url_base == <<"http", ":", "/", "/">> \o domain_name
                         \o <<":", ToString(ListenPort)>>
         IN  handle_request(p, resource, url_base)

---------------------------------------------------------------------------
(* Bounds of the model, and what a client may send *)

(* header lines read per request *)
MaxHeaders == 2

(* path segments of a generated resource *)
MaxSegs == 3

CRLF == "\r\n"

(* the segments joined by '/'; an empty segment is the empty text *)
RECURSIVE join_slash(_)
join_slash(segs) ==
    IF segs = <<>> THEN <<>>
    ELSE (IF Head(segs) = "" THEN <<>> ELSE <<Head(segs)>>)
         \o (IF Len(segs) > 1 THEN <<"/">> ELSE <<>>)
         \o join_slash(Tail(segs))

RequestLine(method, resource, version) ==
    <<method, " ">> \o resource \o <<" ">> \o version \o <<CRLF>>

HTTP11 == <<"HTTP", "/", "1.1">>

Get(resource) == RequestLine("GET", resource, HTTP11)

HeaderLine(key, value) == <<key, ":", " ">> \o value

(* request lines of the connection session *)
SessionRequestLines ==
    { Get(<<"/", "index.html">>),
      Get(<<"/">>),
      Get(<<"/", "..", "/", "..", "/", "etc", "/", "passwd">>),
      Get(<<"/", "noext">>),
      Get(<<"/", "missing.txt">>),
      RequestLine("POST", <<"/", "x">>, HTTP11),
      RequestLine("GET", <<"/", "index.html">>, <<"HTTP", "/", "1.0">>),
      <<"GET", " ", "/", "index.html", CRLF>>,
      <<CRLF>>,
      <<" ", CRLF>> }

SessionHeaderLines ==
    { HeaderLine("Host", <<"example.com">>) \o <<CRLF>>,
      HeaderLine("Connection", <<"close">>) \o <<CRLF>>,
      HeaderLine("CONNECTION", <<"Close">>) \o <<" ", CRLF>>,
      <<CRLF>> }

---------------------------------------------------------------------------
(* The connection session: handle_connection under main's accept loop *)

MAX_REQUESTS_PER_CONNECTION == 100

VARIABLES
    pc,                 \* where the server is: Listening, AwaitingRequest,
                        \* ReadingHeaders, Dispatching, WritingResponse, Closed
    host_not_defined,   \* the environment has HOST_NOT_DEFINED = "1"
    requests_served,
    read_timeout,       \* the stream's read timeout is set
    request_line_str,
    actual_headers,
    client_wants_close,
    response_cow,
    lines_read,         \* request lines read on this connection
    parsed,             \* requests matched and dispatched on this connection
    answered,           \* responses written and flushed on this connection
    last_sent,          \* status code of the response just sent, 0 once the
                        \* next request is being read
    io,                 \* file system calls made for the current request
    shutdowns,          \* calls of stream.shutdown(Both) on this connection
    why_closed,         \* the exit taken out of the loop
    call,               \* arguments of a response builder under test
    sessions_open,      \* calls of handle_connection that have not returned
    shutdown_result,    \* what stream.shutdown(Both) returned: "Ok" or "Err"
    buffered,           \* rdr holds a line beyond the one it returned last
    header_line,        \* the line the header loop read last
    written             \* responses stream.write_all wrote on this connection

vars ==
    << pc, host_not_defined, requests_served, read_timeout, request_line_str,
       actual_headers, client_wants_close, response_cow, lines_read, parsed,
       answered, last_sent, io, shutdowns, why_closed, call, sessions_open,
       shutdown_result, buffered, header_line, written >>

NoResponse == [status_line |-> <<>>, headers |-> <<>>, body |-> ""]

StatusCode(r) == r.status_line[2]

FreshSession ==
    /\ requests_served = 0
    /\ read_timeout = FALSE
    /\ request_line_str = <<>>
    /\ actual_headers = <<>>
    /\ client_wants_close = FALSE
    /\ response_cow = NoResponse
    /\ lines_read = 0
    /\ parsed = 0
    /\ answered = 0
    /\ last_sent = 0
    /\ io = <<>>
    /\ shutdowns = 0
    /\ why_closed = ""
    /\ sessions_open = 0
    /\ shutdown_result = ""
    /\ buffered = FALSE
    /\ header_line = <<>>
    /\ written = 0

Init ==
    /\ pc = "Listening"
    /\ host_not_defined \in BOOLEAN
    /\ call = <<>>
    /\ FreshSession

(* handle_connection is entered with a new stream *)
NewSession ==
    /\ requests_served' = 0
    /\ read_timeout' = FALSE
    /\ request_line_str' = <<>>
    /\ actual_headers' = <<>>
    /\ client_wants_close' = FALSE
    /\ response_cow' = NoResponse
    /\ lines_read' = 0
    /\ parsed' = 0
    /\ answered' = 0
    /\ last_sent' = 0
    /\ io' = <<>>
    /\ shutdowns' = 0
    /\ why_closed' = ""
    /\ sessions_open' = sessions_open + 1
    /\ shutdown_result' = ""
    /\ buffered' = FALSE
    /\ header_line' = <<>>
    /\ written' = 0

(* the locals of one loop iteration go out of scope, rdr (line 211) and what
   it still buffers among them *)
DropLocals ==
    /\ actual_headers' = <<>>
    /\ client_wants_close' = FALSE
    /\ response_cow' = NoResponse
    /\ io' = <<>>
    /\ buffered' = FALSE
    /\ header_line' = <<>>

(* stream.shutdown(Both).unwrap(): a failed shutdown panics the server *)
ShutdownUnwrap(reason) ==
    /\ shutdowns' = shutdowns + 1
    /\ why_closed' = reason
    /\ \E result \in {"Ok", "Err"} :
          /\ shutdown_result' = result
          /\ pc' = IF result = "Ok" THEN "Closed" ELSE "Panicked"
          /\ sessions_open' =
                IF result = "Ok" THEN sessions_open - 1 ELSE sessions_open
    /\ DropLocals

(* leaving the loop: stream.shutdown(Both), whose failure is dropped (.ok(),
   line 256) or only logged (lines 344-348); handle_connection returns *)
Shutdown(reason) ==
    /\ pc' = "Closed"
    /\ shutdowns' = shutdowns + 1
    /\ why_closed' = reason
    /\ shutdown_result' \in {"Ok", "Err"}
    /\ sessions_open' = sessions_open - 1
    /\ DropLocals

(* the cap compared one request late *)
cap_reached_late(served) == served > MAX_REQUESTS_PER_CONNECTION

(* line 200 *)
cap_reached(served) == served >= MAX_REQUESTS_PER_CONNECTION

(* main is in listener.incoming() whatever a session is doing *)
may_accept_any_time(at) == TRUE

(* main, lines 380-389: the loop is back in listener.incoming() only when
   handle_connection has returned *)
may_accept(at) == at \in {"Listening", "Closed"}

(* main, lines 380-384: the next connection is handed to handle_connection *)
Accept ==
    /\ may_accept(pc)
    /\ pc' = "AwaitingRequest"
    /\ NewSession
    /\ UNCHANGED <<host_not_defined, call>>

(* main, lines 385-387: a failed accept is logged and the loop goes on *)
AcceptFails ==
    /\ may_accept(pc)
    /\ UNCHANGED vars

(* lines 200-204 *)
CapReached ==
    /\ pc = "AwaitingRequest"
    /\ request_line_str' = <<>>
    /\ cap_reached(requests_served)
    /\ Shutdown("cap")
    /\ UNCHANGED << host_not_defined, requests_served, read_timeout, lines_read,
                    parsed, answered, written, last_sent, call >>

(* lines 206-209 *)
SetReadTimeoutFails ==
    /\ pc = "AwaitingRequest"
    /\ request_line_str' = <<>>
    /\ ~cap_reached(requests_served)
    /\ Shutdown("set_read_timeout")
    /\ UNCHANGED << host_not_defined, requests_served, read_timeout, lines_read,
                    parsed, answered, written, last_sent, call >>

(* lines 206-228: a line of at least one byte is read *)
ReadRequestLine ==
    /\ pc = "AwaitingRequest"
    /\ ~cap_reached(requests_served)
    /\ \E line \in SessionRequestLines :
          /\ read_timeout' = TRUE
          /\ lines_read' = lines_read + 1
          /\ request_line_str' = line
          /\ IF trim(line) = <<>>
             THEN Shutdown("blank_line") /\ UNCHANGED last_sent
             ELSE /\ pc' = "ReadingHeaders"
                  /\ last_sent' = 0
                  /\ buffered' \in BOOLEAN
                  /\ UNCHANGED << actual_headers, client_wants_close,
                                  response_cow, io, shutdowns, why_closed,
                                  sessions_open, shutdown_result, header_line >>
    /\ UNCHANGED <<host_not_defined, requests_served, parsed, answered, written, call>>

(* lines 215-219: Ok(0) *)
ReadRequestLineEof ==
    /\ pc = "AwaitingRequest"
    /\ request_line_str' = <<>>
    /\ ~cap_reached(requests_served)
    /\ read_timeout' = TRUE
    /\ Shutdown("eof")
    /\ UNCHANGED << host_not_defined, requests_served, lines_read, parsed,
                    answered, written, last_sent, call >>

(* lines 229-237: Err(e) *)
ReadRequestLineErr ==
    /\ pc = "AwaitingRequest"
    /\ request_line_str' = <<>>
    /\ ~cap_reached(requests_served)
    /\ read_timeout' = TRUE
    /\ \E kind \in {"WouldBlock", "TimedOut", "Other"} :
          Shutdown(IF kind = "Other" THEN "read_error" ELSE "timeout")
    /\ UNCHANGED << host_not_defined, requests_served, lines_read, parsed,
                    answered, written, last_sent, call >>

(* line 252; the model keeps the first MaxHeaders header lines of a request,
   the lines after them are read and not kept *)
headers_push(headers, trimmed) ==
    IF Len(headers) < MaxHeaders THEN Append(headers, trimmed) ELSE headers

(* lines 242-253: a header line of at least one byte is read, out of rdr's
   buffer or from the socket; the loop has no bound on the lines it reads *)
ReadHeaderLine ==
    /\ pc = "ReadingHeaders"
    /\ \E line \in SessionHeaderLines :
          IF trim(line) = <<>>
          THEN /\ pc' = "Dispatching"
               /\ header_line' = <<>>
               /\ UNCHANGED actual_headers
          ELSE /\ actual_headers' = headers_push(actual_headers, trim(line))
               /\ header_line' = line
               /\ UNCHANGED pc
    /\ buffered' \in BOOLEAN
    /\ UNCHANGED << host_not_defined, requests_served, read_timeout,
                    request_line_str, client_wants_close, response_cow,
                    lines_read, parsed, answered, written, last_sent, io, shutdowns,
                    why_closed, call, sessions_open, shutdown_result >>

(* lines 244-246: Ok(0) ends the headers like a blank line *)
ReadHeaderEof ==
    /\ pc = "ReadingHeaders"
    /\ ~buffered
    /\ pc' = "Dispatching"
    /\ header_line' = <<>>
    /\ UNCHANGED << host_not_defined, requests_served, read_timeout,
                    request_line_str, actual_headers, client_wants_close,
                    response_cow, lines_read, parsed, answered, written, last_sent, io,
                    shutdowns, why_closed, call, sessions_open,
                    shutdown_result, buffered >>

(* lines 254-258: Err(e), which the read timeout set at line 206 can raise *)
ReadHeaderErr ==
    /\ pc = "ReadingHeaders"
    /\ ~buffered
    /\ request_line_str' = <<>>
    /\ \E kind \in {"WouldBlock", "TimedOut", "Other"} :
          /\ kind = "Other" \/ read_timeout
          /\ Shutdown(IF kind = "Other" THEN "header_error" ELSE "header_timeout")
    /\ UNCHANGED << host_not_defined, requests_served, read_timeout, lines_read,
                    parsed, answered, written, last_sent, call >>

(* lines 269-311 *)
Dispatch ==
    /\ pc = "Dispatching"
    /\ pc' = "WritingResponse"
    /\ client_wants_close' = wants_close(actual_headers)
    /\ response_cow' =
          respond(request_line_str, actual_headers, host_not_defined).cow
    /\ io' = respond(request_line_str, actual_headers, host_not_defined).io
    /\ parsed' = parsed + 1
    /\ UNCHANGED << host_not_defined, requests_served, read_timeout,
                    request_line_str, actual_headers, lines_read, answered, written,
                    last_sent, shutdowns, why_closed, call, sessions_open,
                    shutdown_result, buffered, header_line >>

(* the answered request left uncounted *)
count_request_skipped(served) == served

(* line 326 *)
count_request(served) == served + 1

(* lines 313-336: write_all and flush succeed *)
WriteResponse ==
    /\ pc = "WritingResponse"
    /\ request_line_str' = <<>>
    /\ requests_served' = count_request(requests_served)
    /\ written' = written + 1
    /\ answered' = answered + 1
    /\ last_sent' = StatusCode(response_cow)
    /\ IF client_wants_close
       THEN Shutdown("connection_close")
       ELSE /\ pc' = "AwaitingRequest"
            /\ DropLocals
            /\ UNCHANGED << shutdowns, why_closed, sessions_open,
                            shutdown_result >>
    /\ UNCHANGED <<host_not_defined, read_timeout, lines_read, parsed, call>>

(* lines 313-319 *)
WriteFails ==
    /\ pc = "WritingResponse"
    /\ request_line_str' = <<>>
    /\ Shutdown("write_error")
    /\ UNCHANGED << host_not_defined, requests_served, read_timeout, lines_read,
                    parsed, answered, written, last_sent, call >>

(* a failed flush taken for a successful one: the loop goes on *)
FlushFailureIgnored ==
    /\ pc = "WritingResponse"
    /\ request_line_str' = <<>>
    /\ written' = written + 1
    /\ requests_served' = requests_served + 1
    /\ pc' = "AwaitingRequest"
    /\ DropLocals
    /\ UNCHANGED << host_not_defined, read_timeout, lines_read, parsed,
                    answered, last_sent, call, shutdowns, why_closed,
                    sessions_open, shutdown_result >>

(* lines 313-324: write_all wrote the response, flush fails *)
FlushFails ==
    /\ pc = "WritingResponse"
    /\ request_line_str' = <<>>
    /\ written' = written + 1
    /\ Shutdown("flush_error")
    /\ UNCHANGED << host_not_defined, requests_served, read_timeout, lines_read,
                    parsed, answered, last_sent, call >>

Next ==
    \/ Accept
    \/ AcceptFails
    \/ CapReached
    \/ SetReadTimeoutFails
    \/ ReadRequestLine
    \/ ReadRequestLineEof
    \/ ReadRequestLineErr
    \/ ReadHeaderLine
    \/ ReadHeaderEof
    \/ ReadHeaderErr
    \/ Dispatch
    \/ WriteResponse
    \/ WriteFails
    \/ FlushFails

Spec == Init /\ [][Next]_vars

---------------------------------------------------------------------------
(* One request, read and about to be dispatched, over a wider range of   *)
(* resources and Host header lines than the session above reads.         *)

Segments == {"", "..", "example.com", "index.html", "www", "secret.txt"}

SegSeqs == UNION { [1..n -> Segments] : n \in 0..MaxSegs }

DispatchResources ==
    { <<"/">> \o join_slash(segs) : segs \in SegSeqs }
    \cup { <<>>,
           <<"index.html">>,
           <<"/", "/", "index.html">>,
           <<"/", ".", "/", "index.html">>,
           <<"/", "docs">>,
           <<"/", "docs", "/">>,
           <<"/", "docs", "/", "file.xyz">>,
           <<"/", "top.txt">>,
           <<"/", "logo.PNG">>,
           <<"/", "noext">>,
           <<"/", "missing.txt">>,
           <<"/", "..", "/", "..", "/", "etc", "/", "passwd">> }

DispatchRequestLines ==
    { Get(r) : r \in DispatchResources }
    \cup { RequestLine("POST", <<"/", "x">>, HTTP11),
           RequestLine("GET", <<"/", "index.html">>, <<"HTTP", "/", "1.0">>),
           <<"GET", " ", "/", "index.html", CRLF>>,
           <<"GET", " ", " ", "/", "index.html", " ", "HTTP", "/", "1.1", CRLF>>,
           <<" ">> \o Get(<<"/", "index.html">>) }

HostLines ==
    { HeaderLine("Host", <<"example.com">>),
      HeaderLine("Host", <<"example.com", ":", "9000">>),
      HeaderLine("Host", <<"example.com", ":", "8080">>),
      HeaderLine("Host", <<"other.org">>),
      HeaderLine("Host", <<"http", ":", "/", "/", "other.org", "/", "x">>),
      HeaderLine("Host", <<"..">>),
      HeaderLine("Host", <<":", "80">>),
      HeaderLine("host", <<"example.com">>),
      HeaderLine("HOST", <<"example.com">>),
      <<"Host", ":", "example.com">>,
      HeaderLine("Connection", <<"close">>) }

DispatchHeaderLists ==
    { <<>> }
    \cup { <<h>> : h \in HostLines }
    \cup { <<a, b>> :
             a \in { HeaderLine("host", <<"other.org">>),
                     HeaderLine("Connection", <<"close">>),
                     HeaderLine("Host", <<"other.org">>) },
             b \in { HeaderLine("Host", <<"example.com">>),
                     HeaderLine("host", <<"example.com">>) } }

InitDispatch ==
    /\ pc = "Dispatching"
    /\ host_not_defined \in BOOLEAN
    /\ requests_served = 0
    /\ read_timeout = TRUE
    /\ request_line_str \in DispatchRequestLines
    /\ actual_headers \in DispatchHeaderLists
    /\ client_wants_close = FALSE
    /\ response_cow = NoResponse
    /\ lines_read = 1
    /\ parsed = 0
    /\ answered = 0
    /\ last_sent = 0
    /\ io = <<>>
    /\ shutdowns = 0
    /\ why_closed = ""
    /\ call = <<>>
    /\ sessions_open = 1
    /\ shutdown_result = ""
    /\ buffered = FALSE
    /\ header_line = <<>>
    /\ written = 0

NextDispatch == Dispatch

SpecDispatch == InitDispatch /\ [][NextDispatch]_vars

---------------------------------------------------------------------------
(* The response builders on their own, over every status *)

Statuses ==
    { Success, BadRequest, Forbidden, PageNotFound, InternalServerError,
      NotImplemented,
      MovedPermamently(<<>>),
      MovedPermamently(<<"http", ":", "/", "/", "example.com", ":", "8080",
                         "/", "index.html">>),
      MovedPermamently(<<"http", ":", "/", "/", "example.com", ":", "8080",
                         "/", "docs", "/", "index.html">>) }

ContentTypes ==
    { "text/html; charset=utf-8", "text/plain; charset=utf-8",
      "application/octet-stream" }

Bodies == { "", "x", "<h1>Hi</h1>", HTML_ERROR("Not Found") }

BuildCalls ==
    [ fn : {"build_http_response"}, status : Statuses,
      content_type : ContentTypes, initial_body : Bodies ]
    \cup [ fn : {"build_error_response"}, status : Statuses,
           content_type : {""}, initial_body : {""} ]

InitBuild ==
    /\ pc = "Building"
    /\ call \in BuildCalls
    /\ host_not_defined = FALSE
    /\ FreshSession

BuildHttpResponse ==
    /\ pc = "Building"
    /\ call.fn = "build_http_response"
    /\ response_cow' =
          build_http_response(call.status, call.content_type, call.initial_body)
    /\ pc' = "Built"
    /\ UNCHANGED << host_not_defined, requests_served, read_timeout,
                    request_line_str, actual_headers, client_wants_close,
                    lines_read, parsed, answered, written, last_sent, io, shutdowns,
                    why_closed, call, sessions_open, shutdown_result,
                    buffered, header_line >>

BuildErrorResponse ==
    /\ pc = "Building"
    /\ call.fn = "build_error_response"
    /\ response_cow' = build_error_response(call.status)
    /\ pc' = "Built"
    /\ UNCHANGED << host_not_defined, requests_served, read_timeout,
                    request_line_str, actual_headers, client_wants_close,
                    lines_read, parsed, answered, written, last_sent, io, shutdowns,
                    why_closed, call, sessions_open, shutdown_result,
                    buffered, header_line >>

NextBuild == BuildHttpResponse \/ BuildErrorResponse

SpecBuild == InitBuild /\ [][NextBuild]_vars

---------------------------------------------------------------------------
(* What the properties below read off a state *)

(* the header line is `Connection: close`, in any letter case *)
IsConnectionClose(h) ==
    [i \in 1..Len(h) |-> to_ascii_lowercase(h[i])]
        = <<"connection", ":", " ", "close">>

CarriesConnectionClose(headers) ==
    \E i \in 1..Len(headers) : IsConnectionClose(headers[i])

(* the line is `GET <resource> HTTP/1.1`: three tokens, one space apart *)
IsGetForm(line) ==
    LET t == trim(line)
    IN  /\ Len(t) >= 6
        /\ t[1] = "GET"
        /\ t[2] = " "
        /\ SubSeq(t, Len(t) - 3, Len(t)) = <<" ", "HTTP", "/", "1.1">>
        /\ \A i \in 3..(Len(t) - 4) : t[i] # " "

ResourceOf(line) == SubSeq(trim(line), 3, Len(trim(line)) - 4)

ErrorCodes == {400, 403, 404, 500, 501}

HeaderValue(r, name) ==
    r.headers[CHOOSE i \in 1..Len(r.headers) : r.headers[i][1] = name][2]

RECURSIVE decimal_value(_)
decimal_value(digits) ==
    IF digits = <<>> THEN 0
    ELSE 10 * decimal_value(SubSeq(digits, 1, Len(digits) - 1))
         + digits[Len(digits)]

DocumentRoot == Resolve(resource_dir)[1]

(* the locations of the files whose content was read for the request *)
FilesRead ==
    { Resolve(io[i][2])[1] :
        i \in { j \in 1..Len(io) :
                  io[j][1] = "read" /\ fs_read(io[j][2]) # None } }

(* some `..` of the walk leaves the accumulator outside base, or fails *)
RECURSIVE pops_above(_, _, _)
pops_above(acc, comps, base) ==
    IF comps = <<>> THEN FALSE
    ELSE IF Head(comps) = ".."
    THEN \/ acc = <<>>
         \/ ~starts_with(SubSeq(acc, 1, Len(acc) - 1), base)
         \/ pops_above(SubSeq(acc, 1, Len(acc) - 1), Tail(comps), base)
    ELSE IF Head(comps) \in {".", "/"}
    THEN pops_above(acc, Tail(comps), base)
    ELSE pops_above(Append(acc, Head(comps)), Tail(comps), base)

(* a header line whose key is Host in any letter case *)
IsHostLine(h) ==
    /\ Len(h) >= 3
    /\ to_ascii_lowercase(h[1]) = "host"
    /\ h[2] = ":"
    /\ h[3] = " "

FirstHostLine(headers) ==
    headers[CHOOSE i \in 1..Len(headers) :
                /\ IsHostLine(headers[i])
                /\ \A j \in 1..(i - 1) : ~IsHostLine(headers[j])]

(* of `Host: [http://]name[:port][/...]`: name[:port], and name *)
Authority(h) ==
    LET v == SubSeq(h, 4, Len(h))
    IN  before_first(IF str_starts_with(v, <<"http", ":", "/", "/">>)
                     THEN SubSeq(v, 5, Len(v))
                     ELSE v,
                     "/")

HostName(h) == before_first(Authority(h), ":")

GivesPort(h) == \E i \in 1..Len(Authority(h)) : Authority(h)[i] = ":"

Dispatched == pc = "WritingResponse"

---------------------------------------------------------------------------
(* C1: whenever a request is answered 200 with a file's content, the file *)
(* that was read lies under the document root, for every resource and     *)
(* every Host header value.                                               *)
C1_FileReadLiesUnderDocumentRoot ==
    (Dispatched /\ StatusCode(response_cow) = 200) =>
        \A f \in FilesRead : f # DocumentRoot /\ starts_with(f, DocumentRoot)

(* C2: a GET request whose resource walk pops the accumulator above the   *)
(* canonical base directory at any step is answered 403, whatever the     *)
(* later segments are and whether or not the target exists.               *)
C2_PopAboveBaseIsForbidden ==
    ( /\ Dispatched
      /\ IsGetForm(request_line_str)
      /\ find_map_host(actual_headers) # None ) =>
        LET base == canonicalize(base_path(find_map_host(actual_headers)[1],
                                           host_not_defined))
        IN  ( /\ base # None
              /\ pops_above(base[1],
                            components(trim_start_matches(
                                ResourceOf(request_line_str), "/")),
                            base[1]) )
            => StatusCode(response_cow) = 403

(* C3: once the request counter has reached MAX_REQUESTS_PER_CONNECTION   *)
(* the session goes to Closed without reading: no request line beyond the *)
(* cap is read, parsed or answered on a connection.                       *)
C3_NoRequestBeyondCap ==
    /\ [](/\ lines_read <= MAX_REQUESTS_PER_CONNECTION
          /\ parsed <= MAX_REQUESTS_PER_CONNECTION
          /\ answered <= MAX_REQUESTS_PER_CONNECTION)
    /\ [][ ( /\ pc = "AwaitingRequest"
             /\ requests_served >= MAX_REQUESTS_PER_CONNECTION )
           => ( /\ pc' = "Closed"
                /\ lines_read' = lines_read
                /\ parsed' = parsed
                /\ answered' = answered ) ]_vars

C3_Witness ==
    /\ pc = "Closed"
    /\ why_closed = "cap"
    /\ requests_served = MAX_REQUESTS_PER_CONNECTION
    /\ answered = MAX_REQUESTS_PER_CONNECTION

(* C4: a request that carries `Connection: close` (in any letter case) is *)
(* the last of its connection whatever its outcome: the step after its    *)
(* dispatch closes the session, and a closed session reads, parses and    *)
(* answers nothing (the next step is the accept of a new connection).     *)
C4_ConnectionCloseEndsSession ==
    [][ /\ (Dispatched /\ CarriesConnectionClose(actual_headers))
             => pc' = "Closed"
        /\ pc = "Closed"
             => ( /\ pc' = "AwaitingRequest"
                  /\ lines_read' = 0
                  /\ parsed' = 0
                  /\ answered' = 0 ) ]_vars

C4_Witness ==
    /\ pc = "Closed"
    /\ why_closed = "connection_close"
    /\ last_sent = 403

(* C5: the Content-Length header of every response built is the byte      *)
(* length of the body after the blank line; for a redirect whose body is  *)
(* synthesized that is the synthesized body, not the empty one passed in. *)
C5_ContentLengthIsBodyLength ==
    response_cow # NoResponse =>
        /\ Cardinality({ i \in 1..Len(response_cow.headers) :
                           response_cow.headers[i][1] = "Content-Length" }) = 1
        /\ decimal_value(HeaderValue(response_cow, "Content-Length"))
             = Len(response_cow.body)
        /\ ( /\ pc = "Built"
             /\ call.status.tag = "MovedPermamently"
             /\ call.fn = "build_http_response"
             /\ call.initial_body = "" )
           => decimal_value(HeaderValue(response_cow, "Content-Length"))
                = Len(HTML_MOVED("Moved Permamently", "Moved Permamently",
                                 Text(call.status.url)))

C5_Witness ==
    /\ pc = "Built"
    /\ call.fn = "build_http_response"
    /\ call.status.tag = "MovedPermamently"
    /\ call.initial_body = ""
    /\ response_cow.body # ""
    /\ decimal_value(HeaderValue(response_cow, "Content-Length")) > 0

(* C6: a response with an error status (501, 400, 403, 404, 500) is       *)
(* written like any other, and once it is written the session is back at  *)
(* awaiting the next request, where a request line can be read unless the *)
(* cap is reached; it closes only if the request carried Connection:      *)
(* close.                                                                 *)
C6_ErrorsLeaveConnectionOpen ==
    /\ [][ ( /\ Dispatched
             /\ StatusCode(response_cow) \in ErrorCodes
             /\ answered' = answered + 1 )
           => ( /\ last_sent' = StatusCode(response_cow)
                /\ IF CarriesConnectionClose(actual_headers)
                   THEN pc' = "Closed"
                   ELSE pc' = "AwaitingRequest" /\ shutdowns' = 0 ) ]_vars
    /\ []( ( /\ pc = "AwaitingRequest"
             /\ requests_served < MAX_REQUESTS_PER_CONNECTION )
           => ENABLED ReadRequestLine )

C6_Witness ==
    /\ pc = "AwaitingRequest"
    /\ last_sent = 500
    /\ shutdowns = 0

(* C7, as claimed: every request line read with at least one byte that is *)
(* not `GET <resource> HTTP/1.1`, a blank line included, yields 501 and   *)
(* is not fatal to the connection.                                        *)
C7_NonGetLineYields501 ==
    /\ []( (Dispatched /\ ~IsGetForm(request_line_str))
           => StatusCode(response_cow) = 501 )
    /\ [][ (lines_read' = lines_read + 1 /\ ~IsGetForm(request_line_str'))
           => pc' # "Closed" ]_vars

(* C7, amended: a request line that is not blank after trimming and is    *)
(* not `GET <resource> HTTP/1.1` goes on to the header lines, yields 501  *)
(* and leaves the session open after the response is written (unless the *)
(* request carried Connection: close); a line that is blank after         *)
(* trimming closes the session with no response.                          *)
C7_NonBlankNonGetLineYields501 ==
    /\ []( (Dispatched /\ ~IsGetForm(request_line_str))
           => StatusCode(response_cow) = 501 )
    /\ [][ /\ (lines_read' = lines_read + 1 /\ trim(request_line_str') # <<>>)
                => pc' = "ReadingHeaders"
           /\ (lines_read' = lines_read + 1 /\ trim(request_line_str') = <<>>)
                => ( /\ pc' = "Closed"
                     /\ parsed' = parsed
                     /\ answered' = answered )
           /\ ( /\ Dispatched
                /\ StatusCode(response_cow) = 501
                /\ answered' = answered + 1
                /\ ~CarriesConnectionClose(actual_headers) )
                => pc' = "AwaitingRequest" ]_vars

C7_Witness ==
    /\ pc = "AwaitingRequest"
    /\ last_sent = 501
    /\ answered >= 1

(* the first header line the code takes the host from *)
UsedHostLine(headers) ==
    headers[CHOOSE i \in 1..Len(headers) :
                /\ str_starts_with(headers[i], <<"Host", ":", " ">>)
                /\ \A j \in 1..(i - 1) :
                       ~str_starts_with(headers[j], <<"Host", ":", " ">>)]

(* C8: the Host header is the first header line whose key is Host in any  *)
(* letter case, and the name in that line is the one used for the path    *)
(* and for the redirect Location.                                         *)
C8_HostKeyFoundInAnyCase ==
    ( /\ Dispatched
      /\ IsGetForm(request_line_str)
      /\ \E i \in 1..Len(actual_headers) : IsHostLine(actual_headers[i]) ) =>
        LET name == HostName(FirstHostLine(actual_headers))
        IN  /\ StatusCode(response_cow) # 400
            /\ io # <<>>
            /\ io[1][2] = base_path(name, host_not_defined)
            /\ StatusCode(response_cow) = 301
                 => str_starts_with(HeaderValue(response_cow, "Location"),
                                    <<"http", ":", "/", "/">> \o name)

(* C9: the Location of a 301 is http:// followed by the host and port as  *)
(* given in the Host header, the resource, one '/' unless the resource    *)
(* ends in one, and index.html.                                           *)
C9_LocationFromHostHeader ==
    ( /\ Dispatched
      /\ StatusCode(response_cow) = 301
      /\ GivesPort(UsedHostLine(actual_headers)) ) =>
        HeaderValue(response_cow, "Location")
          = <<"http", ":", "/", "/">>
            \o Authority(UsedHostLine(actual_headers))
            \o ResourceOf(request_line_str)
            \o (IF str_ends_with(ResourceOf(request_line_str), "/")
                THEN <<>> ELSE <<"/">>)
            \o <<"index.html">>

(* no header line starts with `Host: ` *)
NoUsableHost(headers) ==
    \A i \in 1..Len(headers) : ~str_starts_with(headers[i], <<"Host", ":", " ">>)

(* C10: with virtual hosting on, a GET request without a usable Host      *)
(* header is answered 400 for every resource, no file system call is made *)
(* for it, and once the 400 is written the session is back at awaiting    *)
(* the next request (it closes only on Connection: close).                *)
C10_MissingHostIsBadRequest ==
    /\ []( ( /\ Dispatched
             /\ IsGetForm(request_line_str)
             /\ ~host_not_defined
             /\ NoUsableHost(actual_headers) )
           => (StatusCode(response_cow) = 400 /\ io = <<>>) )
    /\ [][ ( /\ Dispatched
             /\ StatusCode(response_cow) = 400
             /\ answered' = answered + 1
             /\ ~CarriesConnectionClose(actual_headers) )
           => (pc' = "AwaitingRequest" /\ shutdowns' = 0) ]_vars

C10_Witness ==
    /\ pc = "AwaitingRequest"
    /\ last_sent = 400
    /\ ~host_not_defined

InSession == pc \notin {"Listening", "Closed"}

(* C11: connections are served one at a time: at most one session is      *)
(* between its accept and Closed (one exactly while the loop of           *)
(* handle_connection runs, none while main waits in accept), and a        *)
(* connection is accepted only when the session before it is Closed.      *)
C11_OneSessionAtATime ==
    /\ sessions_open \in {0, 1}
    /\ InSession <=> sessions_open = 1

(* a keep-alive session past its first request, main not back in accept *)
C11_Witness ==
    /\ pc = "ReadingHeaders"
    /\ sessions_open = 1
    /\ requests_served >= 1

(* C12: a transport failure is fatal to the session. A step that leaves   *)
(* the header loop for Closed (a read error) writes no response and       *)
(* counts no request; a step that leaves the write for Closed without     *)
(* the flush having succeeded does not increment the request counter;     *)
(* both shut the stream down, and from Closed nothing more is read or     *)
(* answered on that connection: the only step is the accept of the next.  *)
C12_TransportFailureIsFatal ==
    /\ [][ (pc = "ReadingHeaders" /\ pc' = "Closed")
           => /\ written' = written
              /\ answered' = answered
              /\ requests_served' = requests_served
              /\ shutdowns' = shutdowns + 1 ]_vars
    /\ [][ (pc = "WritingResponse" /\ answered' = answered)
           => /\ pc' = "Closed"
              /\ requests_served' = requests_served
              /\ shutdowns' = shutdowns + 1 ]_vars
    /\ [][ pc = "Closed"
           => /\ pc' = "AwaitingRequest"
              /\ sessions_open' = 1
              /\ lines_read' = 0 /\ written' = 0 /\ answered' = 0 ]_vars

(* sessions ended by a header read error and by a failed write or flush *)
C12_Witness ==
    /\ pc = "Closed"
    /\ why_closed \in {"header_error", "write_error", "flush_error"}
    /\ requests_served >= 1
    /\ shutdowns = 1

(* C13: the idle-read timeout is armed before each request-line read and  *)
(* bounds only that read: a session that ends on a timeout ends while it  *)
(* awaits a request line, and no read of the header loop ends on the      *)
(* timeout.                                                               *)
C13_TimeoutBoundsOnlyRequestLine ==
    /\ [][ (pc = "AwaitingRequest" /\ lines_read' = lines_read + 1)
           => read_timeout' ]_vars
    /\ [][ (pc' = "Closed" /\ why_closed' \in {"timeout", "header_timeout"})
           => pc = "AwaitingRequest" ]_vars

(* the content type the extension table gives *)
ExpectedContentType(ext) ==
    CASE ext = "html" -> "text/html; charset=utf-8"
      [] ext \in {"png", "PNG"} -> "image/png"
      [] ext = "txt" -> "text/plain; charset=utf-8"
      [] OTHER -> "application/octet-stream"

(* the request passed the confinement check: handle_request went on to *)
(* test its path                                                        *)
PassedConfinement == Dispatched /\ Len(io) >= 2 /\ io[2][1] = "is_dir"

(* C14: for a request whose path passed the confinement check the outcome *)
(* is decided in this order: a directory -> 301; else a path with an      *)
(* extension -> the file is read: 200 with its bytes and the content type *)
(* of the extension table (application/octet-stream for an unrecognised   *)
(* extension) when the read succeeds, 500 (never 404) when it fails; else *)
(* (no extension) -> 404 and no read is attempted.                         *)
C14_OutcomeOrder ==
    PassedConfinement =>
        LET p == io[2][2]
            code == StatusCode(response_cow)
        IN  IF is_dir(p)
            THEN code = 301 /\ Len(io) = 2
            ELSE IF extension(p) # None
            THEN /\ Len(io) = 3
                 /\ io[3] = <<"read", p>>
                 /\ IF fs_read(p) # None
                    THEN /\ code = 200
                         /\ response_cow.body = fs_read(p)[1]
                         /\ HeaderValue(response_cow, "Content-Type")
                              = ExpectedContentType(extension(p)[1])
                    ELSE code = 500
            ELSE code = 404 /\ Len(io) = 2

(* a missing file with an extension was answered 500 after a failed read *)
C14_Witness ==
    /\ PassedConfinement
    /\ ~is_dir(io[2][2])
    /\ extension(io[2][2]) = Some("txt")
    /\ fs_read(io[2][2]) = None
    /\ StatusCode(response_cow) = 500

(* C15: every path by which a session ends shuts the stream down (both    *)
(* halves) exactly once: no shutdown while the session runs, one when it  *)
(* is Closed; and whether that shutdown returned Ok or Err,               *)
(* handle_connection has returned and main can accept the next            *)
(* connection.                                                            *)
C15_EveryExitShutsDownOnce ==
    /\ [](InSession => (shutdowns = 0 /\ shutdown_result = ""))
    /\ []( pc = "Closed"
           => /\ shutdowns = 1
              /\ shutdown_result \in {"Ok", "Err"}
              /\ why_closed \in { "cap", "eof", "timeout", "read_error",
                                  "set_read_timeout", "blank_line",
                                  "header_error", "header_timeout",
                                  "write_error", "flush_error",
                                  "connection_close" }
              /\ sessions_open = 0
              /\ ENABLED Accept )
    /\ [][ (InSession /\ ~InSession')
           => (pc' = "Closed" /\ shutdowns' = shutdowns + 1) ]_vars

(* the early return of the header loop, its shutdown having failed *)
C15_Witness ==
    /\ pc = "Closed"
    /\ why_closed = "header_error"
    /\ shutdown_result = "Err"
    /\ shutdowns = 1

(* C16: parsing a request consumes from the connection that request's     *)
(* lines and no more: when a request has been answered and the session    *)
(* goes on to the next request line, the reader the request was parsed    *)
(* with holds no line the client sent after the blank line, so that the   *)
(* next request line read is the one that follows it and back-to-back     *)
(* requests are each answered.                                            *)
C16_NothingReadAheadIsDropped ==
    [][ (pc = "WritingResponse" /\ pc' = "AwaitingRequest") => ~buffered ]_vars

---------------------------------------------------------------------------
(* One session under the assumption that every blocking call returns: the *)
(* read of a request line, the read of a header line and the write each   *)
(* come back with one of their outcomes, and the steps between them are   *)
(* taken.  What a read returns is the client's choice.  The session is    *)
(* taken up where it awaits a request line LiveRemaining requests below   *)
(* the cap, each request before answered 501 and none read ahead.         *)

LiveRemaining == 2

InitLive ==
    /\ pc = "AwaitingRequest"
    /\ host_not_defined \in BOOLEAN
    /\ requests_served = MAX_REQUESTS_PER_CONNECTION - LiveRemaining
    /\ read_timeout = TRUE
    /\ request_line_str = <<>>
    /\ actual_headers = <<>>
    /\ client_wants_close = FALSE
    /\ response_cow = NoResponse
    /\ lines_read = MAX_REQUESTS_PER_CONNECTION - LiveRemaining
    /\ parsed = MAX_REQUESTS_PER_CONNECTION - LiveRemaining
    /\ answered = MAX_REQUESTS_PER_CONNECTION - LiveRemaining
    /\ written = MAX_REQUESTS_PER_CONNECTION - LiveRemaining
    /\ last_sent = 501
    /\ io = <<>>
    /\ shutdowns = 0
    /\ why_closed = ""
    /\ call = <<>>
    /\ sessions_open = 1
    /\ shutdown_result = ""
    /\ buffered = FALSE
    /\ header_line = <<>>

RequestLineReadReturns ==
    \/ CapReached
    \/ SetReadTimeoutFails
    \/ ReadRequestLine
    \/ ReadRequestLineEof
    \/ ReadRequestLineErr

HeaderReadReturns == ReadHeaderLine \/ ReadHeaderEof \/ ReadHeaderErr

WriteReturns == WriteResponse \/ WriteFails \/ FlushFails

(* the step of Dispatch as pc shows it: from Dispatching there is no other *)
DispatchReturns == pc = "Dispatching" /\ pc' = "WritingResponse"

NextLive ==
    \/ RequestLineReadReturns
    \/ HeaderReadReturns
    \/ Dispatch
    \/ WriteReturns

SpecLive ==
    /\ InitLive
    /\ [][NextLive]_vars
    /\ WF_vars(RequestLineReadReturns)
    /\ WF_vars(HeaderReadReturns)
    /\ WF_pc(DispatchReturns)
    /\ WF_vars(WriteReturns)

(* C17: every connection session eventually reaches Closed, whatever the  *)
(* client does, provided each blocking read and write returns.            *)
C17_SessionEventuallyClosed == InSession ~> pc = "Closed"

(* C18: in every state of a session the request counter is between 0 and  *)
(* MAX_REQUESTS_PER_CONNECTION and is the number of responses written and *)
(* flushed on the connection; a request whose headers were read is        *)
(* written once before the next request line is read, so the counter, the *)
(* requests parsed and the responses written agree whenever a request     *)
(* line is awaited or headers are read, the request being answered is the *)
(* one parsed request ahead of them, and within a session none of them    *)
(* goes down.                                                             *)
C18_CounterInLockStep ==
    /\ [](sessions_open = 1
          => /\ requests_served \in 0..MAX_REQUESTS_PER_CONNECTION
             /\ requests_served = answered)
    /\ [](pc \in {"AwaitingRequest", "ReadingHeaders", "Dispatching"}
          => (parsed = requests_served /\ written = requests_served))
    /\ [](pc = "WritingResponse"
          => (parsed = requests_served + 1 /\ written = requests_served))
    /\ [][ pc = "WritingResponse"
           => /\ written' \in {written, written + 1}
              /\ requests_served' \in {requests_served, requests_served + 1}
              /\ requests_served' = requests_served + 1
                   => written' = written + 1 ]_vars
    /\ [][ (InSession /\ pc # "WritingResponse")
           => /\ requests_served' = requests_served
              /\ written' = written
              /\ parsed' \in {parsed, parsed + 1} ]_vars

(* a keep-alive session whose counter has reached the cap *)
C18_Witness ==
    /\ pc = "AwaitingRequest"
    /\ requests_served = MAX_REQUESTS_PER_CONNECTION
    /\ parsed = MAX_REQUESTS_PER_CONNECTION
    /\ written = MAX_REQUESTS_PER_CONNECTION

(* C19: with virtual hosting on, a request answered 200 was served a file *)
(* from under <document root>/h, h the name its Host header gives, and h  *)
(* is one non-empty directory name (not `.` or `..`): no Host value lets  *)
(* a request read a file of another host's subdirectory or one directly   *)
(* in the document root.                                                  *)
C19_ServedFromOwnHostDirectory ==
    (Dispatched /\ ~host_not_defined /\ StatusCode(response_cow) = 200) =>
        LET name == HostName(UsedHostLine(actual_headers))
        IN  \A f \in FilesRead :
                /\ Len(name) = 1
                /\ name[1] \notin {".", ".."}
                /\ f # Append(DocumentRoot, name[1])
                /\ starts_with(f, Append(DocumentRoot, name[1]))

===========================================================================
